---- MODULE Spec2Model ----
(***************************************************************************)
(* A model of the Git input scheme of libfetchers (git.cc): the repo       *)
(* classifier getRepoInfo, the ref resolver readHead / readHeadCached,     *)
(* the mirror cache with its lock and ref-file freshness, and the          *)
(* snapshot builder getAccessorFromCommit / getAccessorFromCheckout.       *)
(*                                                                         *)
(* Every getAccessor call is a process that moves through the function at  *)
(* its suspension points (the git subprocesses).  The outcome of a         *)
(* subprocess that depends on the outside world (network, the user's       *)
(* working tree) is drawn with \E.                                         *)
(***************************************************************************)
EXTENDS Integers, Sequences, FiniteSets, TLC

----------------------------------------------------------------------------
(* Bounds of the model *)

\* the clock runs from 0 to MaxTime
MaxTime == 1
\* settings.tarballTtl, a configuration value
TarballTtl == 1
\* commits are 1..MaxRev, a linear history; the remote's main branch moves forward
MaxRev == 2
\* number of getAccessor calls in one behaviour
MaxCalls == 2

----------------------------------------------------------------------------
(* Values *)

NoRev == 0
Revs == 1..MaxRev
RevOpt == {NoRev} \cup Revs

\* a ref name is the sequence of its '/'-separated components; <<>> is "no ref"
NoRef == <<>>
gitInitialBranch == <<"__nix_dummy_branch">>
Main == <<"main">>
Master == <<"master">>
InputRefs == {NoRef, Main}

\* an attribute that is not set
Absent == -1

Procs == {"f1", "f2"}
NoProc == "none"

\* the two URLs of the model: a local working tree, and a remote repository
LocalUrl == [scheme |-> "file", hasDotGit |-> TRUE]
RemoteUrl == [scheme |-> "https", hasDotGit |-> FALSE]
Urls == {LocalUrl, RemoteUrl}

\* _NIX_FORCE_HTTP is not set
forceHttp == FALSE

\* wait statuses as waitpid returns them: exit code e is e * 256, signal s is s
ExitOk == 0
Exit1 == 256
Exit128 == 32768
Killed == 9
WaitStatuses == {ExitOk, Exit1, Exit128, Killed}

WIFEXITED(status) == status % 128 = 0
WEXITSTATUS(status) == (status \div 256) % 256

\* what the classifier looks for in the merged output of git rev-parse
MsgNone == "other"
MsgNotRepo == "fatal: not a git repository"
MsgNeedRev == "fatal: Needed a single revision"
Messages == {MsgNone, MsgNotRepo, MsgNeedRev}

\* commit time and number of ancestors of a commit (linear history)
CommitTime(rev) == 100 + rev
RevCountOf(rev) == rev

Inputs ==
    [url : Urls, ref : InputRefs, rev : RevOpt,
     shallow : BOOLEAN, submodules : BOOLEAN, allRefs : BOOLEAN]

EmptyInput ==
    [url |-> RemoteUrl, ref |-> NoRef, rev |-> NoRev,
     shallow |-> FALSE, submodules |-> FALSE, allRefs |-> FALSE]

\* the attributes of the Input a call works on and returns
EmptyAttrs ==
    [ref |-> NoRef, rev |-> NoRev, revCount |-> Absent,
     lastModified |-> Absent, narHash |-> FALSE]

\* RepoInfo::cacheType: "git" with -shallow, -submodules, -all-refs appended
CacheTypeOf(input) == <<input.shallow, input.submodules, input.allRefs>>

\* the branches of the remote repository; its HEAD is main, its master stays at
\* commit 1, its main is at remoteMain
Branches == {Main, Master}
RemoteHead == Main

\* the ref files of the mirror, as paths below cacheDir
RefFiles ==
    {<<"refs", "heads">> \o b : b \in Branches \cup {gitInitialBranch, <<"HEAD">>}}
NoFile == [rev |-> NoRev, mtime |-> 0]

EmptyMirror ==
    [exists |-> FALSE, head |-> gitInitialBranch, headMtime |-> 0,
     refs |-> [f \in RefFiles |-> NoFile], shallow |-> FALSE, objs |-> {}]

\* the local variables of getAccessorFromCommit
EmptyLoc ==
    [ref |-> NoRef, now |-> 0, doFetch |-> FALSE, statFresh |-> FALSE,
     catFile |-> "none", isShallow |-> FALSE]

\* what a call did, kept for the properties; writes: the writes to the mirror's
\* git directory that the call made while it did not hold the lock; effects: what
\* the call did to the mirror, in the order in which it did it; scratchMade,
\* scratchLeft: the scratch directories the call created, and those that are
\* still there when it has ended; fetchDst: the destination side of the refspec
\* of the git fetch it ran
EmptyHist ==
    [headChecked |-> FALSE, headSt |-> 0, headMsg |-> MsgNone,
     diffRan |-> FALSE, diffSt |-> 0, allowDirty |-> FALSE, headRev |-> NoRev,
     rhcCalled |-> FALSE, rhcStat |-> FALSE, rhcCached |-> NoRef,
     rhcNow |-> 0, rhcMtime |-> 0,
     rhcLsRemote |-> FALSE, rhcRemote |-> NoRef, rhcResult |-> NoRef,
     nFetch |-> 0, fetchFailed |-> FALSE, refAtFail |-> FALSE,
     warned |-> FALSE, writes |-> {}, sawShallow |-> FALSE,
     effects |-> <<>>, scratchMade |-> {}, scratchLeft |-> {},
     fetchDst |-> <<>>]

EmptyRepoInfo ==
    [threw |-> FALSE, isLocal |-> FALSE, isDirty |-> FALSE, hasHead |-> TRUE]

----------------------------------------------------------------------------
(* URLs and attributes as the scheme gets them *)

\* a scheme is the sequence of its '+'-separated parts
FrontSchemes == {<<"git">>, <<"git", "https">>, <<"git", "file">>, <<"https">>}
AcceptedSchemes ==
    {<<"git">>, <<"git", "http">>, <<"git", "https">>, <<"git", "ssh">>, <<"git", "file">>}

\* a ref name that badGitRefRegex matches
BadRef == <<"bad..ref">>
FrontRefs == {NoRef, Main, BadRef}

\* the value of a query key; "" when the URL does not have the key
QueryFlags == {"", "0", "1"}
OtherParams == {"", "x"}

\* a ParsedURL: scheme, and the query as a map with sorted keys
FrontUrls ==
    [scheme : FrontSchemes, rev : RevOpt, ref : FrontRefs,
     shallow : QueryFlags, submodules : QueryFlags, other : OtherParams]

NoUrl ==
    [scheme |-> <<>>, rev |-> NoRev, ref |-> NoRef,
     shallow |-> "", submodules |-> "", other |-> ""]

\* the url attribute: the URL without git+ and without the promoted keys
BaseUrls == [scheme : {<<"git">>, <<"https">>, <<"file">>}, other : OtherParams]

\* a boolean attribute
BoolAttrs == {"absent", "true", "false"}

\* Attrs; unsupported: there is a key that the scheme does not know
FrontAttrs ==
    [type : {"git", "github"}, unsupported : BOOLEAN, url : BaseUrls,
     ref : FrontRefs, rev : RevOpt, shallow : BoolAttrs, submodules : BoolAttrs]

NoAttrs ==
    [type |-> "git", unsupported |-> FALSE, url |-> [scheme |-> <<"git">>, other |-> ""],
     ref |-> NoRef, rev |-> NoRev, shallow |-> "absent", submodules |-> "absent"]

\* what an operation of the scheme gives: an Input, nothing, or an error
Made(kind, a) == [kind |-> kind, attrs |-> a]
NoResult == Made("none", NoAttrs)

\* Explicit<bool> { value == "1" }
ExplicitBool(value) == IF value = "1" THEN "true" ELSE "false"

inputFromAttrs(a) ==
    IF a.type # "git" THEN NoResult
    ELSE IF a.unsupported THEN Made("error", NoAttrs)
    ELSE IF a.ref = BadRef THEN Made("error", NoAttrs)
    ELSE Made("input", a)

inputFromURL(u) ==
    IF u.scheme \notin AcceptedSchemes THEN NoResult
    ELSE inputFromAttrs(
            [type |-> "git", unsupported |-> FALSE,
             url |-> [scheme |-> IF Len(u.scheme) > 1 /\ u.scheme[1] = "git"
                                 THEN Tail(u.scheme) ELSE u.scheme,
                      other |-> u.other],
             ref |-> u.ref, rev |-> u.rev,
             shallow |-> IF u.shallow = "" THEN "absent" ELSE ExplicitBool(u.shallow),
             submodules |-> IF u.submodules = "" THEN "absent"
                            ELSE ExplicitBool(u.submodules)])

toURL(a) ==
    [scheme |-> IF a.url.scheme # <<"git">> THEN <<"git">> \o a.url.scheme
                ELSE a.url.scheme,
     rev |-> a.rev, ref |-> a.ref,
     shallow |-> IF a.shallow = "true" THEN "1" ELSE "",
     submodules |-> "",
     other |-> a.url.other]

\* a variant without the check of the result
applyOverridesUnchecked(a, ref, rev) ==
    Made("input", [a EXCEPT !.rev = IF rev # NoRev THEN rev ELSE @,
                            !.ref = IF ref # NoRef THEN ref ELSE @])

applyOverrides(a, ref, rev) ==
    LET res == [a EXCEPT !.rev = IF rev # NoRev THEN rev ELSE @,
                         !.ref = IF ref # NoRef THEN ref ELSE @]
    IN  IF res.ref = NoRef /\ res.rev # NoRev THEN Made("error", NoAttrs)
        ELSE Made("input", res)

\* the front end: what was given, the operation made last with its ref and rev
\* arguments, its result, and the URL that toURL printed
NoFront ==
    [stage |-> "none", url |-> NoUrl, given |-> NoAttrs, ref |-> NoRef,
     rev |-> NoRev, res |-> NoResult, back |-> NoUrl]

----------------------------------------------------------------------------
(* the ZIP accessor: strings are sequences of characters *)

\* the names that an archive of the model can have, in the order of the archive
ZipNames ==
    << <<"a", "/">>,
       <<"a", "/", "b">>,
       <<"a", "/", "a", "/">>,
       <<"a", "/", "a", "/", "b">>,
       <<"a", "/", "b", "/", "a">>,
       <<"b">>,
       <<"b", "/", "b">> >>

\* the paths that the accessor is asked for
ZipPaths ==
    { <<"/">>,
      <<"/", "a">>,
      <<"/", "b">>,
      <<"/", "a", "/">>,
      <<"/", "a", "/", "b">>,
      <<"/", "a", "/", "a">>,
      <<"/", "b", "/", "a">> }

\* the st_mode of the files of an archive: 0100755, 0100644, 0120777, 0010644
\* (a fifo), and of its directory entries: 0040755
FileModes == {33261, 33188, 41471, 4516}
DirEntryMode == 16877

\* the origin of the entries: ZIP_OPSYS_UNIX or another
OpSystems == {"unix", "dos"}

CharCode(c) == CASE c = "/" -> 47 [] c = "a" -> 97 [] c = "b" -> 98

\* strcmp(a, b) < 0
strcmpLess(a, b) ==
    \E k \in 1..(Len(b)) :
        /\ k <= Len(a) + 1
        /\ \A i \in 1..(k - 1) : a[i] = b[i]
        /\ k = Len(a) + 1 \/ CharCode(a[k]) < CharCode(b[k])

cmp_str(a, b) == strcmpLess(a, b)

\* strchr(s, c): the position of the first c in s, 0 when there is none
strchr(s, c) ==
    IF \E i \in 1..Len(s) : s[i] = c
    THEN CHOOSE i \in 1..Len(s) : s[i] = c /\ \A j \in 1..(i - 1) : s[j] # c
    ELSE 0

\* the string that starts at position i of s
StrFrom(s, i) == SubSeq(s, i, Len(s))

\* strncmp(s, prefix, prefix.size()) == 0
strncmpEq(s, prefix) ==
    Len(s) >= Len(prefix) /\ SubSeq(s, 1, Len(prefix)) = prefix

\* canonPath of an absolute path without . and ..: no slash at the end, except
\* for the root
canonPath(path) ==
    IF Len(path) > 1 /\ path[Len(path)] = "/" THEN SubSeq(path, 1, Len(path) - 1)
    ELSE path

\* zip_file_get_external_attributes of entry n: the upper 16 bits of the 32-bit
\* attributes, attributes >> 16, which hold the st_mode
ZipAttributesHigh(n, mode) ==
    IF ZipNames[n][Len(ZipNames[n])] = "/" THEN DirEntryMode ELSE mode

NoMember == [key |-> <<>>, index |-> 0]

RECURSIVE ReadIndex(_, _, _)
\* the constructor's loop over the entries n.. of the archive: an entry with a
\* '/' in its name is put in the map under the part of the name that starts at
\* the first '/'; emplace keeps the element that is already there
ReadIndex(archive, n, members) ==
    IF n > Len(ZipNames) THEN members
    ELSE LET slash == strchr(ZipNames[n], "/")
             key == StrFrom(ZipNames[n], slash)
         IN  IF n \notin archive \/ slash = 0 THEN ReadIndex(archive, n + 1, members)
             ELSE IF \E m \in members : m.key = key
             THEN ReadIndex(archive, n + 1, members)
             ELSE ReadIndex(archive, n + 1, members \cup {[key |-> key, index |-> n]})

\* members.find
MembersFind(members, key) ==
    IF \E m \in members : m.key = key
    THEN CHOOSE m \in members : m.key = key
    ELSE NoMember

RECURSIVE MembersInOrder(_)
\* the elements of the map in the order of cmp_str
MembersInOrder(members) ==
    IF members = {} THEN <<>>
    ELSE LET first == CHOOSE m \in members :
                         \A o \in members \ {m} : cmp_str(m.key, o.key)
         IN  <<first>> \o MembersInOrder(members \ {first})

\* the result of an operation of the accessor
ZipResult(ok, type, isExecutable, names, index) ==
    [ok |-> ok, type |-> type, isExecutable |-> isExecutable, names |-> names,
     index |-> index]

ZipError == ZipResult(FALSE, "none", FALSE, {}, 0)

pathExists(members, _path) ==
    LET path == canonPath(_path)
    IN  ZipResult(MembersFind(members, path) # NoMember, "none", FALSE, {}, 0)

\* (attributes >> 16) & 0770000
ModeType(high) == ((high \div 4096) % 64) * 4096

\* (attributes >> 16) & 0000100
ModeExec(high) == (high \div 64) % 2 = 1

\* lstat: type is the variable of the function body; the switch on the file type
\* declares a variable type of its own and assigns to that one
lstat(members, opsys, mode, _path) ==
    LET path == canonPath(_path)
        i1 == MembersFind(members, path)
        i == IF i1 = NoMember THEN MembersFind(members, path \o <<"/">>) ELSE i1
        type == IF i1 = NoMember THEN "tDirectory" ELSE "tRegular"
        high == ZipAttributesHigh(i.index, mode)
        inner == ModeType(high)
    IN  IF i = NoMember THEN ZipError
        ELSE IF opsys # "unix" THEN ZipResult(TRUE, type, FALSE, {}, i.index)
        ELSE IF inner = 16384 THEN ZipResult(TRUE, type, FALSE, {}, i.index)
        ELSE IF inner = 32768
        THEN ZipResult(TRUE, type, ModeExec(high), {}, i.index)
        ELSE IF inner = 40960 THEN ZipResult(TRUE, type, FALSE, {}, i.index)
        ELSE ZipError

RECURSIVE ReadEntries(_, _, _, _)
\* the loop of readDirectory from element j of the map on
ReadEntries(ordered, j, path, entries) ==
    IF j > Len(ordered) \/ ~strncmpEq(ordered[j].key, path) THEN entries
    ELSE LET start == StrFrom(ordered[j].key, Len(path) + 1)
             slash == strchr(start, "/")
         IN  IF slash # 0 /\ StrFrom(start, slash) # <<"/">>
             THEN ReadEntries(ordered, j + 1, path, entries)
             ELSE ReadEntries(ordered, j + 1, path,
                              entries \cup {IF slash # 0 THEN SubSeq(start, 1, slash - 1)
                                            ELSE start})

readDirectory(members, _path) ==
    LET path == canonPath(_path) \o <<"/">>
        i == MembersFind(members, path)
        ordered == MembersInOrder(members)
        pos == CHOOSE j \in 1..Len(ordered) : ordered[j] = i
    IN  IF i = NoMember THEN ZipError
        ELSE ZipResult(TRUE, "none", FALSE, ReadEntries(ordered, pos + 1, path, {}),
                       i.index)

\* no accessor
NoZip ==
    [stage |-> "none", archive |-> {}, opsys |-> "unix", mode |-> 33188,
     members |-> {}, op |-> "none", path |-> <<>>, res |-> ZipError]

----------------------------------------------------------------------------
VARIABLES
    clock,         \* time(0)
    remoteMain,    \* the commit the remote's main branch is at
    mirror,        \* the bare repository at getCachePath(url) of the remote URL
    lock,          \* the holder of <cacheDir>.lock
    cacheLocked,   \* locked records of the store cache
    cacheUnlocked, \* unlocked records of the store cache
    facts,         \* the fact cache: keys git-<rev>-last-modified, git-<rev>-revcount
    calls,         \* number of calls started
    pc,            \* pc[p]: where call p is
    inp,           \* inp[p]: the Input as passed to getAccessor
    attrs,         \* attrs[p]: input.attrs as the call changes them
    repoInfo,      \* repoInfo[p]: RepoInfo of the call
    loc,           \* loc[p]: local variables of getAccessorFromCommit
    hist,          \* hist[p]: what the call did
    outcome,       \* outcome[p]: how the call ended
    front,         \* the URL or attributes given to the scheme, and the Input made
    zip            \* a ZipInputAccessor: the archive, the index, the last operation

globals == <<clock, remoteMain, mirror, lock, cacheLocked, cacheUnlocked, facts>>
locals == <<pc, inp, attrs, repoInfo, loc, hist, outcome>>
vars == <<globals, calls, locals, front, zip>>

----------------------------------------------------------------------------
(* helpers of the anonymous namespace *)

\* a variant that still takes a file of age tarballTtl as fresh
isCacheFileWithinTtlInclusive(now, mtime) == mtime + TarballTtl >= now

isCacheFileWithinTtl(now, mtime) == mtime + TarballTtl > now

\* a variant without the fallback to the expired cached ref
readHeadCachedNoFallback(m, now, cachedRead, remoteRead) ==
    LET statOk == m.exists
        cachedRef == IF statOk THEN cachedRead ELSE NoRef
        fresh == /\ statOk
                 /\ cachedRef # NoRef
                 /\ cachedRef # gitInitialBranch
                 /\ isCacheFileWithinTtl(now, m.headMtime)
    IN  [stat |-> statOk, cached |-> cachedRef, fresh |-> fresh,
         lsRemote |-> ~fresh,
         remote |-> IF fresh THEN NoRef ELSE remoteRead,
         result |-> IF fresh THEN cachedRef ELSE remoteRead]

\* readHeadCached(actualUrl) on mirror m at time now; cachedRead and remoteRead are
\* what readHead(cacheDir) and readHead(actualUrl) return when they are called
readHeadCached(m, now, cachedRead, remoteRead) ==
    LET statOk == m.exists
        cachedRef == IF statOk THEN cachedRead ELSE NoRef
        fresh == /\ statOk
                 /\ cachedRef # NoRef
                 /\ cachedRef # gitInitialBranch
                 /\ isCacheFileWithinTtl(now, m.headMtime)
    IN  [stat |-> statOk, cached |-> cachedRef, fresh |-> fresh,
         lsRemote |-> ~fresh,
         remote |-> IF fresh THEN NoRef ELSE remoteRead,
         result |-> IF fresh THEN cachedRef
                    ELSE IF remoteRead # NoRef THEN remoteRead
                    ELSE cachedRef]

\* what git ls-remote --symref can give for the mirror, the remote, a working tree
ReadHeadOfMirror(m) == IF m.exists THEN {NoRef, m.head} ELSE {NoRef}
ReadHeadOfRemote == {NoRef, RemoteHead}
ReadHeadOfLocal == {NoRef, Main}

----------------------------------------------------------------------------
(* getRepoInfo *)

isBareRepository(url) == url.scheme = "file" /\ ~url.hasDotGit

IsLocal(url) == url.scheme = "file" /\ ~forceHttp /\ ~isBareRepository(url)

\* the classification of the HEAD check: "throw", or the RepoInfo fields
\* st, msg: wait status and output of git rev-parse --verify HEAD^{commit}
HeadCheck(st, msg) ==
    LET exitCode == WEXITSTATUS(st)
    IN  IF msg = MsgNotRepo THEN "throw"
        ELSE IF msg = MsgNeedRev THEN (IF exitCode = 0 THEN "hasHead" ELSE "noHead")
        ELSE IF exitCode # 0 THEN "throw"
        ELSE "hasHead"

\* the classification of git diff HEAD --quiet: runProgram throws ExecError
\* unless the status is 0
DiffCheck(st) ==
    IF st = 0 THEN "clean"
    ELSE IF ~WIFEXITED(st) \/ WEXITSTATUS(st) # 1 THEN "throw"
    ELSE "dirty"

\* a variant of RepoInfo::warnDirty that only warns
warnDirtyOnlyWarns(isDirty, allowDirty) == "ok"

\* RepoInfo::warnDirty: an error unless fetchSettings.allowDirty
warnDirty(isDirty, allowDirty) == IF isDirty /\ ~allowDirty THEN "throw" ELSE "ok"

\* getLastModified(repoInfo, repoDir, ref): the commit time git log prints, or 0
\* without running git when the repository has no HEAD commit
getLastModified(hasHead, commitTime) == IF hasHead THEN commitTime ELSE 0

\* getRepoInfo(input) with the outcomes of its two subprocesses; threw: an Error
\* was raised and no RepoInfo is returned
RepoInfoOf(threw, isLocal, isDirty, hasHead) ==
    [threw |-> threw, isLocal |-> isLocal, isDirty |-> isDirty, hasHead |-> hasHead]

getRepoInfo(input, st, msg, dst) ==
    LET isLocal == IsLocal(input.url)
    IN  IF ~(input.ref = NoRef /\ input.rev = NoRev /\ isLocal)
        THEN RepoInfoOf(FALSE, isLocal, FALSE, TRUE)
        ELSE IF HeadCheck(st, msg) = "throw" THEN RepoInfoOf(TRUE, isLocal, TRUE, TRUE)
        ELSE IF HeadCheck(st, msg) = "noHead" THEN RepoInfoOf(FALSE, isLocal, TRUE, FALSE)
        ELSE IF DiffCheck(dst) = "throw" THEN RepoInfoOf(TRUE, isLocal, TRUE, TRUE)
        ELSE RepoInfoOf(FALSE, isLocal, DiffCheck(dst) = "dirty", TRUE)

getDefaultRef(head) == IF head = NoRef THEN Master ELSE head

\* a variant of the dispatch that sends every input to getAccessorFromCommit
UseCommitPathAlways(input, ri) == TRUE

\* the dispatch of getAccessor: getAccessorFromCommit or getAccessorFromCheckout
UseCommitPath(input, ri) == input.ref # NoRef \/ input.rev # NoRev \/ ~ri.isLocal

----------------------------------------------------------------------------
(* results *)

\* infoAttrs of a commit: rev, lastModified and, unless shallow, revCount
InfoAttrs(input, rev) ==
    [rev |-> rev, lastModified |-> CommitTime(rev),
     revCount |-> IF input.shallow THEN Absent ELSE RevCountOf(rev)]

StorePathOf(input, rev) == [rev |-> rev, submodules |-> input.submodules]

\* the two assertions of makeResult2
makeResult2Asserts(input, a) ==
    /\ a.rev # NoRev
    /\ input.rev = NoRev \/ input.rev = a.rev

\* makeResult2: the attributes it sets on the input
makeResult2(input, a, infoAttrs) ==
    [a EXCEPT !.revCount = IF ~input.shallow THEN infoAttrs.revCount ELSE @,
              !.lastModified = infoAttrs.lastModified]

\* a variant that forgets the narHash of the store path
makeResultNoNarHash(input, a, infoAttrs) == makeResult2(input, a, infoAttrs)

\* makeResult: narHash from the store path, then makeResult2
makeResult(input, a, infoAttrs) ==
    makeResult2(input, [a EXCEPT !.narHash = TRUE], infoAttrs)

\* a variant where the lock's scope ends right after the fetch
cacheDirLockScopeShort == {"locked", "fetch"}

\* the program points inside the scope of cacheDirLock
cacheDirLockScope == {"locked", "fetch", "touch", "readRev"}

\* the call goes on at newpc with input attributes a and locals l; the lock is
\* released when newpc is outside its scope
Goto(p, newpc, a, l) ==
    /\ pc' = [pc EXCEPT ![p] = newpc]
    /\ attrs' = [attrs EXCEPT ![p] = a]
    /\ loc' = [loc EXCEPT ![p] = l]
    /\ lock' = IF lock = p /\ newpc \notin cacheDirLockScope THEN NoProc ELSE lock
    /\ UNCHANGED outcome

\* the (accessor, input) pair goes back to the caller
Finish(p, a, how) ==
    /\ pc' = [pc EXCEPT ![p] = "done"]
    /\ attrs' = [attrs EXCEPT ![p] = a]
    /\ loc' = [loc EXCEPT ![p] = EmptyLoc]
    /\ outcome' = [outcome EXCEPT ![p] = how]
    /\ lock' = IF lock = p THEN NoProc ELSE lock

\* an Error propagates to the caller, who gets no input back; PathLocks and
\* AutoDelete unwind
Throw(p, what) ==
    /\ pc' = [pc EXCEPT ![p] = "failed"]
    /\ attrs' = [attrs EXCEPT ![p] = EmptyAttrs]
    /\ loc' = [loc EXCEPT ![p] = EmptyLoc]
    /\ outcome' = [outcome EXCEPT ![p] = what]
    /\ lock' = IF lock = p THEN NoProc ELSE lock

\* a failed assert aborts the process
Abort(p) == Throw(p, "assertion-failed")

\* makeResult, or the abort of one of its assertions
Result(p, a, infoAttrs, how) ==
    IF makeResult2Asserts(inp[p], a)
    THEN Finish(p, makeResult(inp[p], a, infoAttrs), how)
    ELSE Abort(p)

\* a variant of the catch that always continues
FetchCatchAlwaysWarn(refExists) == "warn"

\* the catch around git fetch: continue with the cached ref if there is one
FetchCatch(refExists) == IF refExists THEN "warn" ELSE "rethrow"

ClearRhc(h) ==
    [h EXCEPT !.rhcCalled = FALSE, !.rhcStat = FALSE, !.rhcCached = NoRef,
              !.rhcNow = 0, !.rhcMtime = 0, !.rhcLsRemote = FALSE,
              !.rhcRemote = NoRef, !.rhcResult = NoRef]

\* getCache()->lookup
LookupLocked(type, rev) == {r \in cacheLocked : r.type = type /\ r.rev = rev}
LookupUnlocked(type, url, ref) ==
    {r \in cacheUnlocked : r.type = type /\ r.url = url /\ r.ref = ref}

\* getCache()->add: the record of a key is replaced
AddLocked(cl, type, rev, infoAttrs, storePath) ==
    {r \in cl : ~(r.type = type /\ r.rev = rev)}
        \cup {[type |-> type, rev |-> rev, info |-> infoAttrs, storePath |-> storePath]}

AddUnlocked(cu, type, url, ref, infoAttrs, storePath) ==
    {r \in cu : ~(r.type = type /\ r.url = url /\ r.ref = ref)}
        \cup {[type |-> type, url |-> url, ref |-> ref, info |-> infoAttrs,
               storePath |-> storePath]}

\* a variant that takes the unlocked record whatever rev it points at
UnlockedRecordAnswersAnyRev(rev, rev2) == TRUE

\* the test on the unlocked record that was found: the input has no rev, or the
\* rev of the record
UnlockedRecordAnswers(rev, rev2) == rev = NoRev \/ rev = rev2

\* a variant that keys the locked record by the rev the caller passed
getLockedAttrsOrigRev(input, rev) == [type |-> CacheTypeOf(input), rev |-> input.rev]

\* getLockedAttrs: the key of the locked record, by the rev of the input now
getLockedAttrs(input, rev) == [type |-> CacheTypeOf(input), rev |-> rev]

\* a variant that writes the unlocked record only
addRecordsUnlockedOnly(cl, cu, input, ref, rev, infoAttrs, storePath) ==
    [unlocked |-> IF input.rev = NoRev
                  THEN AddUnlocked(cu, CacheTypeOf(input), input.url, ref, infoAttrs,
                                   storePath)
                  ELSE cu,
     locked |-> cl]

\* a variant that writes the unlocked record whatever the caller gave
addRecordsAlways(cl, cu, input, ref, rev, infoAttrs, storePath) ==
    [unlocked |-> AddUnlocked(cu, CacheTypeOf(input), input.url, ref, infoAttrs,
                              storePath),
     locked |-> AddLocked(cl, getLockedAttrs(input, rev).type,
                          getLockedAttrs(input, rev).rev, infoAttrs, storePath)]

\* the two getCache()->add after addToStore: the unlocked record unless the
\* caller gave a rev, then the locked record
addRecords(cl, cu, input, ref, rev, infoAttrs, storePath) ==
    [unlocked |-> IF input.rev = NoRev
                  THEN AddUnlocked(cu, CacheTypeOf(input), input.url, ref, infoAttrs,
                                   storePath)
                  ELSE cu,
     locked |-> AddLocked(cl, getLockedAttrs(input, rev).type,
                          getLockedAttrs(input, rev).rev, infoAttrs, storePath)]

\* getLastModified / getRevCount by rev: the fact if it is cached, git otherwise
FactKnown(kind, rev) == <<kind, rev>> \in facts

\* the local ref file of a ref, below cacheDir
IsRefsPath(ref) == Len(ref) > 1 /\ ref[1] = "refs"

\* a variant that puts every ref below refs/heads
LocalRefFileBelowHeads(ref) == <<"refs", "heads">> \o ref

LocalRefFile(ref) == IF IsRefsPath(ref) THEN ref ELSE <<"refs", "heads">> \o ref

FileAt(m, f) == IF f \in DOMAIN m.refs THEN m.refs[f] ELSE NoFile

\* the remote: the commit of a branch, the commits it has
RemoteRef(b) == IF b = Main THEN remoteMain ELSE 1
RemoteHasRev(rev) == rev \in 1..remoteMain
Ancestors(rev) == 1..rev

\* a variant that fetches whatever the age of the ref file
RefNeedsFetchAlways(file, now) == TRUE

\* the freshness decision for a call without rev and without allRefs:
\* stat(localRefFile) fails or the file is older than tarball-ttl
RefNeedsFetch(file, now) ==
    file.rev = NoRev \/ ~isCacheFileWithinTtl(now, file.mtime)

\* a variant that ignores the shallow flag of the input
ShallowNeedsFetchAnyFlag(isShallow, shallow) == isShallow

\* "if we want an unshallow repo but only have a shallow git dir we need to do a fetch"
ShallowNeedsFetch(isShallow, shallow) == isShallow /\ ~shallow

\* a variant that names the ref also when all refs are asked for
FetchRefOfRefOnly(allRefs, ref) ==
    IF IsRefsPath(ref) THEN ref
    ELSE IF ref = <<"HEAD">> THEN ref
    ELSE <<"refs", "heads">> \o ref

\* the source side and the destination side of the refspec
FetchRef(allRefs, ref) ==
    IF allRefs THEN <<"refs", "*">>
    ELSE IF IsRefsPath(ref) THEN ref
    ELSE IF ref = <<"HEAD">> THEN ref
    ELSE <<"refs", "heads">> \o ref

\* the branch of the remote a non-wildcard fetch ref names, or NoRef
BranchOfFetchRef(fetchRef) ==
    IF Len(fetchRef) = 3 /\ fetchRef[1] = "refs" /\ fetchRef[2] = "heads"
          /\ <<fetchRef[3]>> \in Branches
    THEN <<fetchRef[3]>> ELSE NoRef

\* git writes a loose ref file when the ref's value changes
WriteRef(m, f, rev, t) ==
    IF f \in DOMAIN m.refs /\ m.refs[f].rev # rev
    THEN [m EXCEPT !.refs[f] = [rev |-> rev, mtime |-> t]]
    ELSE m

\* a successful git fetch of one branch into the mirror
FetchBranch(m, b, unshallow, t) ==
    [WriteRef(m, <<"refs", "heads">> \o b, RemoteRef(b), t)
        EXCEPT !.objs = @ \cup Ancestors(RemoteRef(b)),
               !.shallow = IF unshallow THEN FALSE ELSE @]

\* the commit that the source side of a refspec names at the remote, or NoRev
RemoteValue(fetchRef) ==
    IF fetchRef = <<"HEAD">> THEN RemoteRef(RemoteHead)
    ELSE IF BranchOfFetchRef(fetchRef) # NoRef THEN RemoteRef(BranchOfFetchRef(fetchRef))
    ELSE NoRev

\* the ref that git writes for the destination side of a refspec: the name
\* itself when it begins with refs/, a branch of that name otherwise
FetchDst(fetchRef) ==
    IF IsRefsPath(fetchRef) THEN fetchRef ELSE <<"refs", "heads">> \o fetchRef

\* a successful git fetch <fetchRef>:<fetchRef>
FetchRefspec(m, fetchRef, unshallow, t) ==
    [WriteRef(m, FetchDst(fetchRef), RemoteValue(fetchRef), t)
        EXCEPT !.objs = @ \cup Ancestors(RemoteValue(fetchRef)),
               !.shallow = IF unshallow THEN FALSE ELSE @]

\* a successful git fetch refs/*:refs/*
FetchAllRefs(m, unshallow, t) ==
    FetchBranch(FetchBranch(m, Main, unshallow, t), Master, unshallow, t)

\* a successful git fetch --depth=1 <rev>:<fetchRef>
FetchShallow(m, rev, fetchRef, t) ==
    [WriteRef(m, fetchRef, rev, t) EXCEPT !.objs = @ \cup {rev}, !.shallow = TRUE]

\* touchCacheFile(localRefFile, now): lutimes fails when the file does not exist
touchCacheFile(m, f, touch_time) ==
    IF FileAt(m, f).rev # NoRev THEN [m EXCEPT !.refs[f].mtime = touch_time] ELSE m

\* a variant without the check of the shallow repository
ShallowRejectedNever(isShallow, shallow) == FALSE

\* the check after the fetch phase: a shallow repository without shallow = true
ShallowRejected(isShallow, shallow) == isShallow /\ ~shallow

\* a write to the mirror's git directory by p
Wrote(p, what) == IF lock = p THEN {} ELSE {what}

----------------------------------------------------------------------------
Init ==
    /\ clock = 0
    /\ remoteMain = 1
    /\ mirror = EmptyMirror
    /\ lock = NoProc
    /\ cacheLocked = {}
    /\ cacheUnlocked = {}
    /\ facts = {}
    /\ calls = 0
    /\ pc = [p \in Procs |-> "idle"]
    /\ inp = [p \in Procs |-> EmptyInput]
    /\ attrs = [p \in Procs |-> EmptyAttrs]
    /\ repoInfo = [p \in Procs |-> EmptyRepoInfo]
    /\ loc = [p \in Procs |-> EmptyLoc]
    /\ hist = [p \in Procs |-> EmptyHist]
    /\ outcome = [p \in Procs |-> "none"]
    /\ front = NoFront
    /\ zip = NoZip

\* getAccessor(store, input): classify the repository, then take the commit or
\* the checkout path
getAccessorOf(p, input) ==
    /\ pc[p] = "idle"
    /\ calls < MaxCalls
    /\ calls' = calls + 1
    /\ inp' = [inp EXCEPT ![p] = input]
    /\ \E st \in WaitStatuses, msg \in Messages, dst \in WaitStatuses :
        LET ri == getRepoInfo(input, st, msg, dst)
            ran == input.ref = NoRef /\ input.rev = NoRev /\ ri.isLocal
            a == [EmptyAttrs EXCEPT !.ref = input.ref, !.rev = input.rev]
            diffRan == ran /\ HeadCheck(st, msg) = "hasHead"
        IN  /\ ~ran => (st = ExitOk /\ msg = MsgNone)
            \* git prints a fatal message only when it fails
            /\ msg # MsgNone => st # ExitOk
            /\ ~diffRan => dst = ExitOk
            /\ hist' = [hist EXCEPT ![p].headChecked = ran,
                                    ![p].headSt = st, ![p].headMsg = msg,
                                    ![p].diffRan = diffRan, ![p].diffSt = dst]
            /\ IF ri.threw
               THEN /\ Throw(p, "getRepoInfo-error")
                    /\ UNCHANGED repoInfo
               ELSE /\ repoInfo' = [repoInfo EXCEPT ![p] = ri]
                    /\ Goto(p, IF UseCommitPath(input, ri)
                               THEN "fromCommit" ELSE "fromCheckout", a, EmptyLoc)
    /\ UNCHANGED <<clock, remoteMain, mirror, cacheLocked, cacheUnlocked, facts>>
    /\ UNCHANGED <<front, zip>>

getAccessor(p) == \E input \in Inputs : getAccessorOf(p, input)

\* getAccessorFromCheckout: the working tree of a local repository
getAccessorFromCheckout(p) ==
    /\ pc[p] = "fromCheckout"
    /\ \E head \in ReadHeadOfLocal, parsed \in RevOpt, headRev \in Revs,
          gitOk \in BOOLEAN, ad \in BOOLEAN :
        LET ri == repoInfo[p]
            ref == getDefaultRef(head)
            a1 == [attrs[p] EXCEPT !.ref = ref, !.rev = parsed,
                                   !.revCount = RevCountOf(parsed),
                                   !.lastModified = CommitTime(parsed)]
            a2 == [attrs[p] EXCEPT !.lastModified =
                                     getLastModified(ri.hasHead, CommitTime(headRev))]
        IN  IF ~ri.isDirty
            THEN /\ ~ad /\ headRev = 1
                 /\ UNCHANGED hist
                 /\ IF parsed = NoRev \/ ~gitOk
                    THEN /\ Throw(p, "git-error")
                         /\ UNCHANGED facts
                    ELSE /\ Finish(p, a1, "checkout-clean")
                         /\ facts' = facts \cup {<<"revcount", parsed>>,
                                                 <<"last-modified", parsed>>}
            ELSE /\ head = NoRef /\ parsed = NoRev
                 /\ (~ad \/ ~ri.hasHead) => (headRev = 1 /\ gitOk)
                 /\ hist' = [hist EXCEPT ![p].allowDirty = ad,
                                         ![p].headRev = IF ad /\ ri.hasHead /\ gitOk
                                                        THEN headRev ELSE NoRev]
                 /\ IF warnDirty(ri.isDirty, ad) = "throw"
                    THEN /\ Throw(p, "dirty")
                         /\ UNCHANGED facts
                    ELSE IF ~gitOk
                    THEN /\ Throw(p, "git-error")
                         /\ UNCHANGED facts
                    ELSE /\ Finish(p, a2, "checkout-dirty")
                         /\ UNCHANGED facts
    /\ UNCHANGED <<clock, remoteMain, mirror, cacheLocked, cacheUnlocked>>
    /\ UNCHANGED <<front, zip, calls, inp, repoInfo>>

\* getAccessorFromCommit up to the lookup of the unlocked record
fromCommitStart(p) ==
    /\ pc[p] = "fromCommit"
    /\ \E cachedRead \in ReadHeadOfMirror(mirror), remoteRead \in ReadHeadOfRemote,
          localHead \in ReadHeadOfLocal, parsed \in RevOpt :
        LET ri == repoInfo[p]
            input == inp[p]
            type == CacheTypeOf(input)
            hit1 == IF input.rev # NoRev
                    THEN LookupLocked(getLockedAttrs(input, input.rev).type,
                                      getLockedAttrs(input, input.rev).rev)
                    ELSE {}
            needDefault == ~ri.isDirty /\ hit1 = {} /\ input.ref = NoRef
            rhc == readHeadCached(mirror, clock, cachedRead, remoteRead)
            ref == IF input.ref # NoRef THEN input.ref
                   ELSE IF ri.isLocal THEN getDefaultRef(localHead)
                   ELSE getDefaultRef(rhc.result)
            hit2 == LookupUnlocked(type, input.url, ref)
            a1 == [attrs[p] EXCEPT !.ref = ref]
            l1 == [loc[p] EXCEPT !.ref = ref]
            h1 == IF needDefault /\ ~ri.isLocal
                  THEN [hist[p] EXCEPT !.rhcCalled = TRUE, !.rhcStat = rhc.stat,
                            !.rhcCached = rhc.cached, !.rhcNow = clock,
                            !.rhcMtime = IF rhc.stat THEN mirror.headMtime ELSE 0,
                            !.rhcLsRemote = rhc.lsRemote, !.rhcRemote = rhc.remote,
                            !.rhcResult = rhc.result]
                  ELSE hist[p]
        IN  /\ ~(needDefault /\ ~ri.isLocal) => (cachedRead = NoRef /\ remoteRead = NoRef)
            /\ (needDefault /\ ~ri.isLocal /\ rhc.fresh) => remoteRead = NoRef
            /\ ~(needDefault /\ ri.isLocal) => localHead = NoRef
            /\ ~(~ri.isDirty /\ hit1 = {} /\ ri.isLocal /\ input.rev = NoRev)
                  => parsed = NoRev
            /\ IF ri.isDirty
               THEN /\ Throw(p, "assert-not-dirty-failed")
                    /\ UNCHANGED hist
               ELSE IF hit1 # {}
               THEN /\ \E r \in hit1 : Result(p, attrs[p], r.info, "locked-hit")
                    /\ UNCHANGED hist
               ELSE IF ri.isLocal
               THEN /\ hist' = [hist EXCEPT ![p] = h1]
                    /\ IF input.rev = NoRev /\ parsed = NoRev
                       THEN Throw(p, "git-error")
                       ELSE Goto(p, "post",
                                 [a1 EXCEPT !.rev = IF input.rev # NoRev THEN input.rev
                                                    ELSE parsed], l1)
               ELSE IF \E r \in hit2 : UnlockedRecordAnswers(input.rev, r.info.rev)
               THEN /\ hist' = [hist EXCEPT ![p] = h1]
                    /\ \E r \in hit2 :
                        Result(p, [a1 EXCEPT !.rev = r.info.rev], r.info, "unlocked-hit")
               ELSE /\ hist' = [hist EXCEPT ![p] = h1]
                    /\ Goto(p, "lockWait", a1, l1)
    /\ UNCHANGED <<clock, remoteMain, mirror, cacheLocked, cacheUnlocked, facts>>
    /\ UNCHANGED <<front, zip, calls, inp, repoInfo>>

\* PathLocks: blocks until the lock file is free, then holds it
PathLocks(p) ==
    /\ lock = NoProc
    /\ lock' = p

\* PathLocks cacheDirLock({cacheDir + ".lock"})
acquireCacheDirLock(p) ==
    /\ pc[p] = "lockWait"
    /\ PathLocks(p)
    /\ pc' = [pc EXCEPT ![p] = "locked"]
    /\ hist' = [hist EXCEPT ![p] = ClearRhc(@)]
    /\ UNCHANGED <<clock, remoteMain, mirror, cacheLocked, cacheUnlocked, facts>>
    /\ UNCHANGED <<front, zip, calls, inp, attrs, repoInfo, loc, outcome>>

\* under the lock: create the mirror if it is missing, then decide whether to fetch
initAndDecide(p) ==
    /\ pc[p] = "locked"
    /\ \E initOk \in BOOLEAN, catKilled \in BOOLEAN :
        LET input == inp[p]
            rev == attrs[p].rev
            m1 == IF mirror.exists THEN mirror
                  ELSE [EmptyMirror EXCEPT !.exists = TRUE, !.headMtime = clock]
            file == FileAt(m1, LocalRefFile(loc[p].ref))
            now == clock
            doFetch1 == IF rev # NoRev THEN rev \notin m1.objs
                        ELSE IF input.allRefs THEN TRUE
                        ELSE RefNeedsFetch(file, now)
            isShallow == m1.shallow
            doFetch == doFetch1 \/ ShallowNeedsFetch(isShallow, input.shallow)
            l1 == [loc[p] EXCEPT
                     !.now = now, !.doFetch = doFetch,
                     !.statFresh = rev = NoRev /\ ~input.allRefs
                                     /\ file.rev # NoRev
                                     /\ isCacheFileWithinTtl(now, file.mtime),
                     !.catFile = IF rev = NoRev THEN "none"
                                 ELSE IF rev \in m1.objs THEN "ok" ELSE "missing",
                     !.isShallow = isShallow]
        IN  /\ mirror.exists => initOk
            /\ (rev = NoRev \/ ~initOk) => ~catKilled
            /\ mirror' = IF initOk THEN m1 ELSE mirror
            /\ hist' = [hist EXCEPT
                          ![p].writes =
                              IF ~mirror.exists /\ initOk THEN @ \cup Wrote(p, "init") ELSE @,
                          ![p].effects =
                              IF ~mirror.exists /\ initOk THEN Append(@, "init") ELSE @]
            /\ IF ~initOk \/ catKilled
               THEN Throw(p, "git-error")
               ELSE Goto(p, IF doFetch THEN "fetch" ELSE "readRev", attrs[p], l1)
    /\ UNCHANGED <<clock, remoteMain, cacheLocked, cacheUnlocked, facts>>
    /\ UNCHANGED <<front, zip, calls, inp, repoInfo>>

\* the git fetch into the mirror, and the catch around it
gitFetch(p) ==
    /\ pc[p] = "fetch"
    /\ \E res \in {"ok", "failed", "crash"}, garbage \in Revs :
        LET input == inp[p]
            rev == attrs[p].rev
            ref == loc[p].ref
            fetchRef == FetchRef(input.allRefs, ref)
            unshallow == ~input.shallow /\ mirror.shallow
            \* input.getRev()->gitRev() on an input without rev reads an empty optional
            undefined == input.shallow /\ rev = NoRev
            src == IF undefined THEN garbage ELSE rev
            canSucceed ==
                IF input.shallow
                THEN ~input.allRefs /\ (undefined \/ RemoteHasRev(src))
                ELSE input.allRefs \/ RemoteValue(fetchRef) # NoRev
            fetched ==
                IF input.shallow THEN FetchShallow(mirror, src, fetchRef, clock)
                ELSE IF input.allRefs THEN FetchAllRefs(mirror, unshallow, clock)
                ELSE FetchRefspec(mirror, fetchRef, unshallow, clock)
            refExists == FileAt(mirror, LocalRefFile(ref)).rev # NoRev
            h1 == [hist[p] EXCEPT !.nFetch = @ + 1, !.writes = @ \cup Wrote(p, "fetch"),
                                  !.effects = Append(@, "fetch"),
                                  !.fetchDst = fetchRef]
        IN  /\ res = "ok" => canSucceed
            /\ res = "crash" => undefined
            /\ (~undefined \/ res # "ok") => garbage = 1
            /\ IF res = "crash"
               THEN /\ Throw(p, "crashed")
                    /\ UNCHANGED <<mirror, hist>>
               ELSE IF res = "ok"
               THEN /\ mirror' = fetched
                    /\ hist' = [hist EXCEPT ![p] = h1]
                    /\ Goto(p, "touch", attrs[p], loc[p])
               ELSE IF FetchCatch(refExists) = "rethrow"
               THEN /\ Throw(p, "fetch-error")
                    /\ hist' = [hist EXCEPT ![p] =
                                  [h1 EXCEPT !.fetchFailed = TRUE, !.refAtFail = refExists]]
                    /\ UNCHANGED mirror
               ELSE /\ hist' = [hist EXCEPT ![p] =
                                  [h1 EXCEPT !.fetchFailed = TRUE, !.refAtFail = refExists,
                                             !.warned = TRUE]]
                    /\ Goto(p, "touch", attrs[p], loc[p])
                    /\ UNCHANGED mirror
    /\ UNCHANGED <<clock, remoteMain, cacheLocked, cacheUnlocked, facts>>
    /\ UNCHANGED <<front, zip, calls, inp, repoInfo>>

\* a variant that stores the default ref in HEAD first
storeThenTouch(stored) ==
    (IF stored THEN <<"head">> ELSE <<>>) \o <<"touch">>

\* the two calls after the catch, in their order: touchCacheFile, then
\* storeCachedHead when the caller gave no ref
touchThenStore(stored) ==
    <<"touch">> \o (IF stored THEN <<"head">> ELSE <<>>)

\* after the fetch: touch the local ref file, store the default ref in HEAD
touchAndStoreCachedHead(p) ==
    /\ pc[p] = "touch"
    /\ \E st \in {ExitOk, Exit1, Killed} :
        LET f == LocalRefFile(loc[p].ref)
            touched == FileAt(mirror, f).rev # NoRev
            m1 == touchCacheFile(mirror, f, loc[p].now)
            w1 == IF touched THEN Wrote(p, "touch") ELSE {}
            store == inp[p].ref = NoRef
        IN  /\ ~store => st = ExitOk
            /\ IF store /\ st = ExitOk
               THEN /\ mirror' = [m1 EXCEPT !.head = loc[p].ref, !.headMtime = clock]
                    /\ hist' = [hist EXCEPT ![p].writes = @ \cup w1 \cup Wrote(p, "head"),
                                            ![p].effects = @ \o touchThenStore(TRUE)]
                    /\ Goto(p, "readRev", attrs[p], loc[p])
               ELSE IF store /\ ~WIFEXITED(st)
               THEN /\ mirror' = m1
                    /\ hist' = [hist EXCEPT ![p].writes = @ \cup w1,
                                            ![p].effects = @ \o touchThenStore(FALSE)]
                    /\ Throw(p, "git-error")
               ELSE /\ mirror' = m1
                    /\ hist' = [hist EXCEPT ![p].writes = @ \cup w1,
                                            ![p].effects = @ \o touchThenStore(FALSE)]
                    /\ Goto(p, "readRev", attrs[p], loc[p])
    /\ UNCHANGED <<clock, remoteMain, cacheLocked, cacheUnlocked, facts>>
    /\ UNCHANGED <<front, zip, calls, inp, repoInfo>>

\* resolve rev from the local ref file; the scope of cacheDirLock and of the
\* locals of the mirror branch ends
readRevAndUnlock(p) ==
    /\ pc[p] = "readRev"
    /\ LET file == FileAt(mirror, LocalRefFile(loc[p].ref))
           l1 == [EmptyLoc EXCEPT !.ref = loc[p].ref]
       IN  IF attrs[p].rev # NoRev
           THEN Goto(p, "post", attrs[p], l1)
           ELSE IF file.rev = NoRev
           THEN Throw(p, "read-error")
           ELSE Goto(p, "post", [attrs[p] EXCEPT !.rev = file.rev], l1)
    /\ UNCHANGED <<clock, remoteMain, mirror, cacheLocked, cacheUnlocked, facts>>
    /\ UNCHANGED <<front, zip, calls, inp, repoInfo, hist>>

\* after the lock: the shallow check, infoAttrs, the second lookup of the locked
\* record, and the result of a fetch without submodules
afterFetch(p) ==
    /\ pc[p] = "post"
    /\ \E localShallow \in BOOLEAN, localHas \in BOOLEAN :
        LET input == inp[p]
            ri == repoInfo[p]
            rev == attrs[p].rev
            isShallow == IF ri.isLocal THEN localShallow ELSE mirror.shallow
            hasRev == IF ri.isLocal THEN localHas ELSE rev \in mirror.objs
            needLog == ~FactKnown("last-modified", rev)
            needCount == ~input.shallow /\ ~FactKnown("revcount", rev)
            infoAttrs == InfoAttrs(input, rev)
            hit == LookupLocked(getLockedAttrs(input, rev).type,
                                getLockedAttrs(input, rev).rev)
        IN  /\ ~ri.isLocal => (~localShallow /\ localHas)
            /\ (isShallow /\ ~input.shallow) => localHas
            /\ hist' = [hist EXCEPT ![p].sawShallow = isShallow]
            /\ IF ShallowRejected(isShallow, input.shallow)
               THEN /\ Throw(p, "shallow-repository")
                    /\ UNCHANGED facts
               ELSE IF needLog /\ ~hasRev
               THEN /\ Throw(p, "git-error")
                    /\ UNCHANGED facts
               ELSE IF needCount /\ ~hasRev
               THEN /\ Throw(p, "git-error")
                    /\ facts' = facts \cup {<<"last-modified", rev>>}
               ELSE /\ facts' = facts \cup {<<"last-modified", rev>>}
                          \cup (IF input.shallow THEN {} ELSE {<<"revcount", rev>>})
                    /\ IF hit # {}
                       THEN \E r \in hit : Result(p, attrs[p], r.info, "locked-hit")
                       ELSE IF ~input.submodules
                       THEN IF makeResult2Asserts(input, attrs[p])
                            THEN Finish(p, makeResult2(input, attrs[p], infoAttrs),
                                        "git-accessor")
                            ELSE Abort(p)
                       ELSE Goto(p, "submodules", attrs[p], loc[p])
    /\ UNCHANGED <<clock, remoteMain, mirror, cacheLocked, cacheUnlocked>>
    /\ UNCHANGED <<front, zip, calls, inp, repoInfo>>

\* a variant with a guard on the scratch worktree only
scratchGuardsWorktreeOnly == {"tmpDir"}

\* the scratch directories that have an AutoDelete guard: delTmpDir, delTmpGitDir
scratchGuards == {"tmpDir", "tmpGitDirForLocalSource"}

\* AutoDelete: the directories that are left when the scope of the guards is
\* left by a return or by an exception; an abort runs no destructor
AutoDelete(dirs, how) == IF how = "abort" THEN dirs ELSE {}

\* the checkout with submodules in a scratch worktree, the copy to the store and
\* the cache records
checkoutSubmodules(p) ==
    /\ pc[p] = "submodules"
    /\ \E localHas \in BOOLEAN, step \in {"config", "checkout", "update", "done"} :
        LET input == inp[p]
            ri == repoInfo[p]
            rev == attrs[p].rev
            hasRev == IF ri.isLocal THEN localHas ELSE rev \in mirror.objs
            infoAttrs == InfoAttrs(input, rev)
            storePath == StorePathOf(input, rev)
            \* what git writes in pathToGitFolder before the step that fails
            w == IF ri.isLocal THEN {}
                 ELSE IF step = "config" THEN {}
                 ELSE IF step = "checkout" THEN Wrote(p, "config")
                 ELSE IF step = "update" THEN Wrote(p, "config") \cup Wrote(p, "index")
                 ELSE Wrote(p, "config") \cup Wrote(p, "index") \cup Wrote(p, "modules")
            \* createTempDir: tmpDir, and after the commit was found
            \* tmpGitDirForLocalSource
            made == IF ~hasRev THEN {"tmpDir"}
                    ELSE {"tmpDir", "tmpGitDirForLocalSource"}
            how == IF ~hasRev \/ step # "done" THEN "throw"
                   ELSE IF makeResult2Asserts(input, attrs[p]) THEN "return"
                   ELSE "abort"
        IN  /\ ~ri.isLocal => localHas
            /\ ~hasRev => step = "config"
            /\ IF ~hasRev
               THEN /\ Throw(p, "rev-not-found")
                    /\ hist' = [hist EXCEPT ![p].scratchMade = made,
                                            ![p].scratchLeft = (made \ scratchGuards)
                                                \cup AutoDelete(made \cap scratchGuards, how)]
                    /\ UNCHANGED <<cacheLocked, cacheUnlocked>>
               ELSE IF step # "done"
               THEN /\ Throw(p, "git-error")
                    /\ hist' = [hist EXCEPT ![p].writes = @ \cup w,
                                            ![p].scratchMade = made,
                                            ![p].scratchLeft = (made \ scratchGuards)
                                                \cup AutoDelete(made \cap scratchGuards, how)]
                    /\ UNCHANGED <<cacheLocked, cacheUnlocked>>
               ELSE /\ hist' = [hist EXCEPT ![p].writes = @ \cup w,
                                            ![p].scratchMade = made,
                                            ![p].scratchLeft = (made \ scratchGuards)
                                                \cup AutoDelete(made \cap scratchGuards, how)]
                    /\ cacheUnlocked' =
                          addRecords(cacheLocked, cacheUnlocked, input, loc[p].ref, rev,
                                     infoAttrs, storePath).unlocked
                    /\ cacheLocked' =
                          addRecords(cacheLocked, cacheUnlocked, input, loc[p].ref, rev,
                                     infoAttrs, storePath).locked
                    /\ Result(p, attrs[p], infoAttrs, "store-path")
    /\ UNCHANGED <<clock, remoteMain, mirror, facts>>
    /\ UNCHANGED <<front, zip, calls, inp, repoInfo>>

\* the call has ended; the caller takes the result or the error
Return(p) ==
    /\ pc[p] \in {"done", "failed"}
    /\ pc' = [pc EXCEPT ![p] = "idle"]
    /\ inp' = [inp EXCEPT ![p] = EmptyInput]
    /\ attrs' = [attrs EXCEPT ![p] = EmptyAttrs]
    /\ repoInfo' = [repoInfo EXCEPT ![p] = EmptyRepoInfo]
    /\ loc' = [loc EXCEPT ![p] = EmptyLoc]
    /\ hist' = [hist EXCEPT ![p] = EmptyHist]
    /\ outcome' = [outcome EXCEPT ![p] = "none"]
    /\ UNCHANGED <<globals, front, zip, calls>>

\* somebody pushes a commit to the remote's main branch
remotePush ==
    /\ remoteMain < MaxRev
    /\ remoteMain' = remoteMain + 1
    /\ UNCHANGED <<clock, mirror, lock, cacheLocked, cacheUnlocked, facts>>
    /\ UNCHANGED <<front, zip, calls, locals>>

Tick ==
    /\ clock < MaxTime
    /\ clock' = clock + 1
    /\ UNCHANGED <<remoteMain, mirror, lock, cacheLocked, cacheUnlocked, facts>>
    /\ UNCHANGED <<front, zip, calls, locals>>

\* the steps of getAccessorFromCommit, and the return to the caller
CommitSteps(p) ==
    \/ fromCommitStart(p)
    \/ acquireCacheDirLock(p)
    \/ initAndDecide(p)
    \/ gitFetch(p)
    \/ touchAndStoreCachedHead(p)
    \/ readRevAndUnlock(p)
    \/ afterFetch(p)
    \/ checkoutSubmodules(p)
    \/ Return(p)

\* one fetcher, one call after the other
Next ==
    \/ getAccessor("f1")
    \/ getAccessorFromCheckout("f1")
    \/ CommitSteps("f1")
    \/ Tick
    \/ remotePush

Spec == Init /\ [][Next]_vars

\* two fetchers at once, both on the remote URL, without rev, allRefs, shallow
ConcInputs ==
    {i \in Inputs : i.url = RemoteUrl /\ i.rev = NoRev /\ ~i.allRefs /\ ~i.shallow}

getAccessorRemote(p) == \E input \in ConcInputs : getAccessorOf(p, input)

NextConc ==
    \/ \E p \in Procs : getAccessorRemote(p) \/ CommitSteps(p)
    \/ Tick
    \/ remotePush

SpecConc == Init /\ [][NextConc]_vars

\* one fetcher on the remote URL, with the forms of ref that a caller can give:
\* none, a branch name, a name that begins with refs/, HEAD
RefInputs ==
    {[url |-> RemoteUrl, ref |-> ref, rev |-> NoRev, shallow |-> FALSE,
      submodules |-> sub, allRefs |-> FALSE] :
        ref \in {NoRef, Main, <<"refs", "heads", "main">>, <<"HEAD">>},
        sub \in BOOLEAN}

getAccessorOfRef(p) == \E input \in RefInputs : getAccessorOf(p, input)

NextRefs ==
    \/ getAccessorOfRef("f1")
    \/ CommitSteps("f1")
    \/ Tick
    \/ remotePush

SpecRefs == Init /\ [][NextRefs]_vars

----------------------------------------------------------------------------
(* the operations that make an Input and print it *)

mainVars == <<globals, calls, locals, zip>>

\* a URL, or a set of attributes, is given to the scheme
InitFront ==
    /\ clock = 0
    /\ remoteMain = 1
    /\ mirror = EmptyMirror
    /\ lock = NoProc
    /\ cacheLocked = {}
    /\ cacheUnlocked = {}
    /\ facts = {}
    /\ calls = 0
    /\ pc = [p \in Procs |-> "idle"]
    /\ inp = [p \in Procs |-> EmptyInput]
    /\ attrs = [p \in Procs |-> EmptyAttrs]
    /\ repoInfo = [p \in Procs |-> EmptyRepoInfo]
    /\ loc = [p \in Procs |-> EmptyLoc]
    /\ hist = [p \in Procs |-> EmptyHist]
    /\ outcome = [p \in Procs |-> "none"]
    /\ zip = NoZip
    /\ \/ \E u \in FrontUrls : front = [NoFront EXCEPT !.stage = "url", !.url = u]
       \/ \E a \in FrontAttrs : front = [NoFront EXCEPT !.stage = "attrs", !.given = a]

inputFromURLStep ==
    /\ front.stage = "url"
    /\ front' = [front EXCEPT !.stage = "fromURL", !.res = inputFromURL(front.url)]
    /\ UNCHANGED mainVars

inputFromAttrsStep ==
    /\ front.stage = "attrs"
    /\ front' = [front EXCEPT !.stage = "fromAttrs", !.res = inputFromAttrs(front.given)]
    /\ UNCHANGED mainVars

toURLStep ==
    /\ front.stage = "fromURL"
    /\ front.res.kind = "input"
    /\ front' = [front EXCEPT !.stage = "printed", !.back = toURL(front.res.attrs)]
    /\ UNCHANGED mainVars

applyOverridesStep ==
    /\ front.stage = "fromAttrs"
    /\ front.res.kind = "input"
    /\ \E ref \in {NoRef, Main}, rev \in RevOpt :
        front' = [front EXCEPT !.stage = "overridden",
                               !.given = front.res.attrs,
                               !.ref = ref, !.rev = rev,
                               !.res = applyOverrides(front.res.attrs, ref, rev)]
    /\ UNCHANGED mainVars

NextFront ==
    \/ inputFromURLStep
    \/ inputFromAttrsStep
    \/ toURLStep
    \/ applyOverridesStep

SpecFront == InitFront /\ [][NextFront]_vars

----------------------------------------------------------------------------
(* the ZIP accessor *)

\* an archive: some of the names, the origin of its entries, the mode of its files
InitZip ==
    /\ clock = 0
    /\ remoteMain = 1
    /\ mirror = EmptyMirror
    /\ lock = NoProc
    /\ cacheLocked = {}
    /\ cacheUnlocked = {}
    /\ facts = {}
    /\ calls = 0
    /\ pc = [p \in Procs |-> "idle"]
    /\ inp = [p \in Procs |-> EmptyInput]
    /\ attrs = [p \in Procs |-> EmptyAttrs]
    /\ repoInfo = [p \in Procs |-> EmptyRepoInfo]
    /\ loc = [p \in Procs |-> EmptyLoc]
    /\ hist = [p \in Procs |-> EmptyHist]
    /\ outcome = [p \in Procs |-> "none"]
    /\ front = NoFront
    /\ \E archive \in SUBSET (1..Len(ZipNames)), opsys \in OpSystems, mode \in FileModes :
        zip = [NoZip EXCEPT !.stage = "closed", !.archive = archive,
                            !.opsys = opsys, !.mode = mode]

zipOther == <<globals, calls, locals, front>>

\* the constructor reads the index of the archive
ZipInputAccessor ==
    /\ zip.stage = "closed"
    /\ zip' = [zip EXCEPT !.stage = "open", !.members = ReadIndex(zip.archive, 1, {})]
    /\ UNCHANGED zipOther

pathExistsStep ==
    /\ zip.stage = "open"
    /\ \E path \in ZipPaths :
        zip' = [zip EXCEPT !.stage = "asked", !.op = "pathExists", !.path = path,
                           !.res = pathExists(zip.members, path)]
    /\ UNCHANGED zipOther

lstatStep ==
    /\ zip.stage = "open"
    /\ \E path \in ZipPaths :
        zip' = [zip EXCEPT !.stage = "asked", !.op = "lstat", !.path = path,
                           !.res = lstat(zip.members, zip.opsys, zip.mode, path)]
    /\ UNCHANGED zipOther

readDirectoryStep ==
    /\ zip.stage = "open"
    /\ \E path \in ZipPaths :
        zip' = [zip EXCEPT !.stage = "asked", !.op = "readDirectory", !.path = path,
                           !.res = readDirectory(zip.members, path)]
    /\ UNCHANGED zipOther

NextZip ==
    \/ ZipInputAccessor
    \/ pathExistsStep
    \/ lstatStep
    \/ readDirectoryStep

SpecZip == InitZip /\ [][NextZip]_vars

----------------------------------------------------------------------------
(* Properties *)

\* the program points where the fetch decision of the call is known
Decided(p) == pc[p] \in {"fetch", "touch", "readRev"}

\* C1, as stated: for a remote input without rev and without allRefs whose local
\* ref file exists and is within tarballTtl, no git fetch runs, whatever the
\* shallow state of the mirror and the shallow flag.
C1_FreshRefNeverFetches ==
    \A p \in Procs :
        (Decided(p) /\ loc[p].statFresh) => (pc[p] = "readRev" /\ hist[p].nFetch = 0)

\* C1, amended: for a remote input without rev and without allRefs whose local ref
\* file exists and is within tarballTtl, no git fetch runs, unless the mirror is
\* shallow and the shallow flag is false.
C1_FreshRefFetchesOnlyToUnshallow ==
    \A p \in Procs :
        (Decided(p) /\ loc[p].statFresh /\ ~(loc[p].isShallow /\ ~inp[p].shallow))
            => (pc[p] = "readRev" /\ hist[p].nFetch = 0)

\* C1 witness: a fresh ref file in a shallow mirror, shallow = true, and no fetch
C1_Witness ==
    /\ pc["f1"] = "readRev" /\ loc["f1"].statFresh /\ hist["f1"].nFetch = 0
    /\ mirror.shallow /\ inp["f1"].shallow

\* C2, as stated: for a remote input with a rev that git cat-file -e finds in the
\* mirror, no git fetch runs, whatever the ref file and the shallow state.
C2_KnownRevNeverFetches ==
    \A p \in Procs :
        (Decided(p) /\ loc[p].catFile = "ok") => (pc[p] = "readRev" /\ hist[p].nFetch = 0)

\* C2, amended: for a remote input with a rev that git cat-file -e finds in the
\* mirror, no git fetch runs, unless the mirror is shallow and the shallow flag is
\* false.
C2_KnownRevFetchesOnlyToUnshallow ==
    \A p \in Procs :
        (Decided(p) /\ loc[p].catFile = "ok" /\ ~(loc[p].isShallow /\ ~inp[p].shallow))
            => (pc[p] = "readRev" /\ hist[p].nFetch = 0)

\* C2 witness: the rev is in the mirror, the ref file of the call does not exist,
\* and no fetch runs
C2_Witness ==
    /\ pc["f1"] = "readRev" /\ loc["f1"].catFile = "ok" /\ hist["f1"].nFetch = 0
    /\ FileAt(mirror, LocalRefFile(loc["f1"].ref)).rev = NoRev

\* C3: when git fetch fails and the local ref file exists, the call warns and
\* goes on (it does not end with the fetch error); when the file does not exist,
\* the fetch error reaches the caller and there is no result.
C3_FetchFailure ==
    \A p \in Procs :
        hist[p].fetchFailed =>
            IF hist[p].refAtFail
            THEN hist[p].warned /\ outcome[p] # "fetch-error"
            ELSE ~hist[p].warned /\ pc[p] = "failed" /\ outcome[p] = "fetch-error"
                    /\ attrs[p] = EmptyAttrs

\* C3 witness: a call whose fetch failed returns a result from the cached ref
C3_Witness ==
    /\ pc["f1"] = "done" /\ hist["f1"].fetchFailed /\ hist["f1"].warned
    /\ attrs["f1"].rev # NoRev

\* C4: at most one call at a time is inside the scope of <cacheDir>.lock, a call
\* inside it holds the lock, and git init --bare, git fetch, the mtime touch and
\* the HEAD symbolic-ref write are made only by the holder of the lock.
C4_LockDiscipline ==
    /\ \A p \in Procs : pc[p] \in {"locked", "fetch", "touch", "readRev"} => lock = p
    /\ \A p, q \in Procs :
        (pc[p] \in {"locked", "fetch", "touch", "readRev"}
            /\ pc[q] \in {"locked", "fetch", "touch", "readRev"}) => p = q
    /\ \A p \in Procs : hist[p].writes \cap {"init", "fetch", "touch", "head"} = {}
    /\ \A p \in Procs : pc[p] = "lockWait" => hist[p].nFetch = 0 /\ hist[p].writes = {}

\* C4 witness: one call is past its fetch, under the lock, while the other waits
C4_Witness ==
    /\ pc["f1"] = "touch" /\ hist["f1"].nFetch = 1 /\ lock = "f1"
    /\ pc["f2"] = "lockWait"

\* C5: after the scope of the lock has ended a call makes no write to the
\* mirror's git directory, for every combination of flags.
C5_ReadOnlyAfterUnlock ==
    \A p \in Procs : hist[p].writes = {}

\* C6: when readHeadCached returned no fresh cached value and readHead(url) on
\* the remote fails, it returns the value read from the mirror's HEAD, stale or
\* not, returns none only if no cached value was read, and the call goes on.
C6_StaleFallback ==
    \A p \in Procs :
        (hist[p].rhcCalled /\ hist[p].rhcLsRemote /\ hist[p].rhcRemote = NoRef)
            => (hist[p].rhcResult = hist[p].rhcCached /\ pc[p] # "failed")

\* C6 witness: the remote is unreachable and the expired cached HEAD is returned
C6_Witness ==
    /\ hist["f1"].rhcCalled /\ hist["f1"].rhcLsRemote /\ hist["f1"].rhcRemote = NoRef
    /\ hist["f1"].rhcResult = Main
    /\ hist["f1"].rhcMtime + TarballTtl <= hist["f1"].rhcNow

\* C7: readHeadCached returns the cached HEAD without git ls-remote on the remote
\* exactly when <cacheDir>/HEAD exists, readHead(cacheDir) gives a value that is
\* not the sentinel branch, and the mtime of HEAD is within tarballTtl of now; in
\* every other case the remote is asked first.
C7_FastPath ==
    \A p \in Procs :
        hist[p].rhcCalled =>
            /\ ~hist[p].rhcLsRemote <=>
                  (/\ hist[p].rhcStat
                   /\ hist[p].rhcCached \notin {NoRef, gitInitialBranch}
                   /\ hist[p].rhcMtime + TarballTtl > hist[p].rhcNow)
            /\ ~hist[p].rhcLsRemote => hist[p].rhcResult = hist[p].rhcCached
            /\ (hist[p].rhcLsRemote /\ hist[p].rhcRemote # NoRef)
                  => hist[p].rhcResult = hist[p].rhcRemote

\* C7 witness: the cached HEAD is returned and the remote is not asked
C7_Witness ==
    /\ hist["f1"].rhcCalled /\ ~hist["f1"].rhcLsRemote /\ hist["f1"].rhcResult = Main

\* C8: getRepoInfo returns a RepoInfo after the HEAD check only if git rev-parse
\* exited normally with status 0 or its output has "fatal: Needed a single
\* revision"; every other outcome raises an error.
C8_HeadCheckFailsClosed ==
    \A p \in Procs :
        (hist[p].headChecked /\ outcome[p] # "getRepoInfo-error")
            => \/ WIFEXITED(hist[p].headSt) /\ WEXITSTATUS(hist[p].headSt) = 0
               \/ hist[p].headMsg = MsgNeedRev

\* C9: getAccessor never calls getAccessorFromCommit with isDirty = true (the
\* assertion does not fail), and every RepoInfo that getRepoInfo returns has
\* isDirty => (isLocal and neither ref nor rev), and ~hasHead => isDirty.
C9_CommitPathNeverDirty ==
    \A p \in Procs :
        /\ pc[p] = "fromCommit" => ~repoInfo[p].isDirty
        /\ outcome[p] # "assert-not-dirty-failed"
        /\ pc[p] \in {"fromCommit", "fromCheckout"} =>
            /\ repoInfo[p].isDirty =>
                  (repoInfo[p].isLocal /\ inp[p].ref = NoRef /\ inp[p].rev = NoRev)
            /\ ~repoInfo[p].hasHead => repoInfo[p].isDirty

\* C9 witness: a local input with a ref reaches getAccessorFromCommit
C9_Witness ==
    /\ pc["f1"] = "fromCommit" /\ repoInfo["f1"].isLocal /\ inp["f1"].ref # NoRef
    /\ ~repoInfo["f1"].isDirty

\* C10: every input with a rev that getAccessor returns has lastModified, and has
\* revCount if and only if the shallow flag is false.
C10_LockedInputAttrs ==
    \A p \in Procs :
        (pc[p] = "done" /\ attrs[p].rev # NoRev) =>
            /\ attrs[p].lastModified # Absent
            /\ attrs[p].revCount # Absent <=> ~inp[p].shallow

\* C11, as stated: every input with a rev that getAccessorFromCommit returns has
\* narHash, on the locked-record hit, the unlocked-record hit, the snapshot
\* without submodules and the snapshot with submodules.
C11_NarHashOnEveryPath ==
    \A p \in Procs :
        (pc[p] = "done" /\ attrs[p].rev # NoRev
            /\ outcome[p] \in {"locked-hit", "unlocked-hit", "git-accessor", "store-path"})
            => attrs[p].narHash

\* C11, amended: the call sets narHash on the paths that have a store path (the
\* locked-record hit, the unlocked-record hit, the snapshot with submodules); on
\* the snapshot without submodules it sets none.
C11_NarHashWithStorePath ==
    \A p \in Procs :
        (pc[p] = "done" /\ attrs[p].rev # NoRev) =>
            /\ outcome[p] \in {"locked-hit", "unlocked-hit", "store-path"}
                  => attrs[p].narHash
            /\ outcome[p] = "git-accessor" => ~attrs[p].narHash

\* C11 witness: a result from the unlocked record, with narHash
C11_Witness ==
    /\ pc["f1"] = "done" /\ outcome["f1"] = "unlocked-hit"
    /\ attrs["f1"].rev # NoRev /\ attrs["f1"].narHash

\* C12: for a remote input with shallow = true and no rev, and no hit of a cache
\* record, the call runs exactly one git fetch --depth=1 with a well defined
\* refspec (it does not read the rev the input does not have) and returns an
\* input without revCount.
C12_ShallowFetchWithoutRev ==
    \A p \in Procs :
        (inp[p].url = RemoteUrl /\ inp[p].shallow /\ inp[p].rev = NoRev) =>
            /\ outcome[p] # "crashed"
            /\ (pc[p] = "done" /\ outcome[p] \notin {"unlocked-hit", "locked-hit"})
                  => (/\ hist[p].nFetch = 1
                      /\ ~hist[p].fetchFailed
                      /\ attrs[p].revCount = Absent)

\* C13: for a remote input with ref R and rev V, V not in the mirror: after the
\* git fetch of refs/heads/R, if V is still not in the mirror the call fails
\* with the RevNotFound error, whatever submodules and the fact cache are.
C13_RevNotFound ==
    \A p \in Procs :
        (/\ inp[p].url = RemoteUrl /\ inp[p].ref # NoRef /\ inp[p].rev # NoRev
         /\ ~inp[p].allRefs
         /\ pc[p] \in {"done", "failed"}
         /\ hist[p].nFetch >= 1
         /\ outcome[p] \notin {"fetch-error", "shallow-repository"}
         /\ inp[p].rev \notin mirror.objs)
            => (pc[p] = "failed" /\ outcome[p] = "rev-not-found")

\* C14: when the repository is shallow after the fetch phase and shallow = false,
\* the call fails with the shallow-repository error, and that step changes no
\* fact, no store content and no cache record; otherwise the check lets the call
\* pass.  No snapshot is built from a shallow repository with shallow = false.
C14_ShallowRejected ==
    [][\A p \in Procs :
          (pc[p] = "post" /\ pc'[p] # "post") =>
              IF hist'[p].sawShallow /\ ~inp[p].shallow
              THEN /\ pc'[p] = "failed" /\ outcome'[p] = "shallow-repository"
                   /\ facts' = facts
                   /\ cacheLocked' = cacheLocked /\ cacheUnlocked' = cacheUnlocked
              ELSE outcome'[p] # "shallow-repository"]_vars

\* C14 witness: the fetch that should unshallow the mirror failed, the call goes
\* on with the cached ref and is rejected
C14_Witness ==
    /\ pc["f1"] = "failed" /\ outcome["f1"] = "shallow-repository"
    /\ hist["f1"].sawShallow /\ ~inp["f1"].shallow /\ hist["f1"].warned

\* C15: every unlocked record (cacheType, url, ref) -> (rev, storePath) of the
\* store cache has a locked record (cacheType, rev) with the same storePath.
C15_UnlockedHasLocked ==
    \A u \in cacheUnlocked :
        \E l \in cacheLocked :
            l.type = u.type /\ l.rev = u.info.rev /\ l.storePath = u.storePath

\* C15 witness: a call has ended and left an unlocked record
C15_Witness ==
    /\ pc["f1"] = "idle" /\ calls = 1
    /\ \E u \in cacheUnlocked : u.ref = Main /\ u.info.rev = 1

\* C16, as stated: every call that returns a result for rev R without a hit of a
\* cache record leaves a locked record keyed by cacheType and R, with and without
\* submodules.
C16_ResultLeavesLockedRecord ==
    \A p \in Procs :
        (pc[p] = "done" /\ outcome[p] \in {"git-accessor", "store-path"}) =>
            \E l \in cacheLocked :
                l.type = CacheTypeOf(inp[p]) /\ l.rev = attrs[p].rev

\* C16, amended: a call with submodules = true that returns a result for rev R
\* without a hit of a cache record leaves a locked record keyed by cacheType and
\* R with the store path of the snapshot, and a tree is copied to the store only
\* when no such record exists; a call with submodules = false returns a Git
\* accessor and has found no such record.
C16_SubmodulesLeaveLockedRecord ==
    \A p \in Procs :
        /\ (pc[p] = "done" /\ outcome[p] = "store-path") =>
              /\ inp[p].submodules
              /\ \E l \in cacheLocked :
                    /\ l.type = CacheTypeOf(inp[p]) /\ l.rev = attrs[p].rev
                    /\ l.storePath = StorePathOf(inp[p], attrs[p].rev)
        /\ pc[p] = "submodules" =>
              ~\E l \in cacheLocked :
                    l.type = CacheTypeOf(inp[p]) /\ l.rev = attrs[p].rev
        /\ (pc[p] = "done" /\ outcome[p] = "git-accessor") =>
              /\ ~inp[p].submodules
              /\ ~\E l \in cacheLocked :
                    l.type = CacheTypeOf(inp[p]) /\ l.rev = attrs[p].rev

\* C16 witness: a call without rev resolves, after its fetch, to a rev that has a
\* locked record and is answered from it
C16_Witness ==
    /\ pc["f1"] = "done" /\ outcome["f1"] = "locked-hit"
    /\ inp["f1"].rev = NoRev /\ hist["f1"].nFetch = 1

\* C19: getAccessorFromCheckout on a dirty RepoInfo fails with the dirty-tree
\* error when allowDirty is false; otherwise the input it returns differs from
\* the one it got in lastModified only, which is HEAD's commit time, or 0 when
\* hasHead is false; rev, revCount and ref are not set.
C19_DirtyCheckout ==
    \A p \in Procs :
        (repoInfo[p].isDirty /\ pc[p] \in {"done", "failed"}) =>
            IF ~hist[p].allowDirty
            THEN pc[p] = "failed" /\ outcome[p] = "dirty"
            ELSE /\ outcome[p] # "dirty"
                 /\ pc[p] = "done" =>
                       attrs[p] = [EmptyAttrs EXCEPT !.lastModified =
                                      IF repoInfo[p].hasHead
                                      THEN CommitTime(hist[p].headRev) ELSE 0]

\* C19 witness: a dirty tree without HEAD commit is returned with lastModified 0
C19_Witness ==
    /\ pc["f1"] = "done" /\ outcome["f1"] = "checkout-dirty"
    /\ ~repoInfo["f1"].hasHead /\ attrs["f1"].lastModified = 0
    /\ attrs["f1"].rev = NoRev

\* the getRepoInfo of the call has returned a RepoInfo
Returned(p) == pc[p] # "idle" /\ outcome[p] # "getRepoInfo-error"

\* C20: for a local working tree without ref and rev, getRepoInfo returns
\* isDirty = false exactly when the HEAD check exits 0 and git diff exits 0;
\* isDirty = true with hasHead = true when diff exits 1; isDirty = true with
\* hasHead = false, without running diff, when the HEAD check reports "fatal:
\* Needed a single revision"; and it fails for any other end of diff.
C20_DirtyClassification ==
    \A p \in Procs :
        hist[p].headChecked =>
            /\ (Returned(p) /\ ~repoInfo[p].isDirty) =>
                  (hist[p].headSt = ExitOk /\ hist[p].diffRan /\ hist[p].diffSt = ExitOk)
            /\ (hist[p].headSt = ExitOk /\ hist[p].diffSt = ExitOk) =>
                  (Returned(p) /\ ~repoInfo[p].isDirty)
            /\ (hist[p].diffRan /\ hist[p].diffSt = Exit1) =>
                  (Returned(p) /\ repoInfo[p].isDirty /\ repoInfo[p].hasHead)
            /\ hist[p].headMsg = MsgNeedRev =>
                  (/\ Returned(p) /\ repoInfo[p].isDirty /\ ~repoInfo[p].hasHead
                   /\ ~hist[p].diffRan)
            /\ (hist[p].diffRan /\ hist[p].diffSt \notin {ExitOk, Exit1}) => ~Returned(p)

----------------------------------------------------------------------------
(* the operations that make an Input *)

RevWithoutRef(a) == a.rev # NoRev /\ a.ref = NoRef

Setting(value) == value = "1"

\* C18: the URL that toURL prints for the Input that inputFromURL made of a URL
\* is that URL: same scheme, rev, ref, other parameters, and the same shallow
\* and submodules settings.
C18_RoundTrip ==
    front.stage = "printed" =>
        /\ front.back.scheme = front.url.scheme
        /\ front.back.rev = front.url.rev
        /\ front.back.ref = front.url.ref
        /\ front.back.other = front.url.other
        /\ Setting(front.back.shallow) = Setting(front.url.shallow)
        /\ Setting(front.back.submodules) = Setting(front.url.submodules)

----------------------------------------------------------------------------
(* the order of the effects on the mirror *)

EffectRank(e) ==
    CASE e = "init" -> 1 [] e = "fetch" -> 2 [] e = "touch" -> 3 [] e = "head" -> 4

Has(seq, e) == \E i \in 1..Len(seq) : seq[i] = e

\* C21: within one call the effects on the mirror come in the order init, fetch,
\* touch of the ref file, write of HEAD: a fetch runs only into a mirror that
\* exists, a touch only after the fetch attempt of the call, a write of HEAD only
\* after the touch.
C21_EffectOrder ==
    \A p \in Procs :
        LET e == hist[p].effects
        IN  /\ \A i, j \in 1..Len(e) : i < j => EffectRank(e[i]) < EffectRank(e[j])
            /\ Has(e, "fetch") => mirror.exists
            /\ Has(e, "touch") => Has(e, "fetch")
            /\ Has(e, "head") => Has(e, "touch")

\* a call that created the mirror, fetched, touched and wrote HEAD
C21_Witness ==
    \E p \in Procs : hist[p].effects = <<"init", "fetch", "touch", "head">>

----------------------------------------------------------------------------
(* scratch directories *)

\* C22: when a call has ended, with a result or with an error, none of the
\* scratch directories it created (the scratch worktree, the scratch git
\* directory) is left.
C22_ScratchDeleted ==
    \A p \in Procs : pc[p] \in {"done", "failed"} => hist[p].scratchLeft = {}

\* a call that created both scratch directories and failed after that
C22_Witness ==
    \E p \in Procs :
        /\ pc[p] = "failed"
        /\ outcome[p] = "git-error"
        /\ hist[p].scratchMade = {"tmpDir", "tmpGitDirForLocalSource"}
        /\ hist[p].scratchLeft = {}

----------------------------------------------------------------------------
(* the mtime of the local ref file *)

\* C23: a call whose git fetch failed and that goes on with the cached ref
\* leaves the mtime of the local ref file as it was, so that the mtime stays the
\* time of the last successful fetch of the ref.
C23_FailedFetchKeepsMtime ==
    [][\A p \in Procs :
          (pc[p] = "touch" /\ hist[p].fetchFailed) =>
              FileAt(mirror', LocalRefFile(loc[p].ref)).mtime
                  = FileAt(mirror, LocalRefFile(loc[p].ref)).mtime]_vars

----------------------------------------------------------------------------
(* the symbolic HEAD of the mirror *)

\* C24: the HEAD of the mirror is the sentinel or a default branch that the
\* remote reported, never the fallback "master" that getDefaultRef takes when
\* the HEAD of the remote could not be read.
C24_HeadIsRemoteDefault ==
    mirror.head # gitInitialBranch => mirror.head = RemoteHead

----------------------------------------------------------------------------
(* allRefs *)

\* C25 as stated: whenever allRefs is true and the call reaches the mirror, a git
\* fetch is decided, with or without a rev, whether or not the rev is in the mirror.
C25_AllRefsAlwaysFetches ==
    \A p \in Procs : (Decided(p) /\ inp[p].allRefs) => loc[p].doFetch

\* C25: when allRefs is true and the call reaches the mirror, a git fetch is
\* decided if no rev was given; with a rev it is decided exactly when the rev is
\* not in the mirror or the mirror is shallow and shallow is false.  A fetch that
\* was decided is attempted, and the refspec of the fetch has refs/* as its
\* destination.
C25_AllRefsFetch ==
    \A p \in Procs :
        (Decided(p) /\ inp[p].allRefs) =>
            /\ inp[p].rev = NoRev => loc[p].doFetch
            /\ inp[p].rev # NoRev =>
                  loc[p].doFetch = (\/ loc[p].catFile = "missing"
                                    \/ ShallowNeedsFetch(loc[p].isShallow, inp[p].shallow))
            /\ (loc[p].doFetch /\ pc[p] # "fetch") => hist[p].nFetch = 1
            /\ ~loc[p].doFetch => hist[p].nFetch = 0
            /\ hist[p].nFetch > 0 => hist[p].fetchDst = <<"refs", "*">>

\* allRefs with a rev that the mirror has: no fetch; and allRefs without a rev:
\* a fetch of refs/*
C25_Witness ==
    \E p \in Procs :
        /\ inp[p].allRefs /\ inp[p].rev # NoRev
        /\ pc[p] = "readRev"
        /\ loc[p].catFile = "ok" /\ ~loc[p].doFetch
        /\ hist[p].nFetch = 0

----------------------------------------------------------------------------
(* the sentinel branch *)

\* C29: readHeadCached never returns the sentinel branch __nix_dummy_branch as
\* the default ref; with a mirror whose HEAD is still the sentinel and a remote
\* that cannot be reached, it returns nothing.
C29_NeverTheSentinel ==
    \A p \in Procs : hist[p].rhcCalled => hist[p].rhcResult # gitInitialBranch

----------------------------------------------------------------------------
(* the local ref file *)

\* C30: for a ref of any accepted form, with allRefs = false, shallow = false and
\* no rev, the ref that a successful git fetch writes in the mirror is the local
\* ref file: after the fetch the file is there, the touch gives it the mtime now,
\* and reading rev from it does not fail.
C30_FetchWritesLocalRefFile ==
    \A p \in Procs :
        (/\ ~inp[p].allRefs /\ ~inp[p].shallow /\ inp[p].rev = NoRev
         /\ hist[p].nFetch > 0 /\ ~hist[p].fetchFailed) =>
            /\ pc[p] \in {"touch", "readRev"} =>
                  /\ FetchDst(hist[p].fetchDst) = LocalRefFile(loc[p].ref)
                  /\ FileAt(mirror, LocalRefFile(loc[p].ref)).rev # NoRev
            /\ pc[p] = "readRev" =>
                  FileAt(mirror, LocalRefFile(loc[p].ref)).mtime = loc[p].now
            /\ outcome[p] # "read-error"

\* a fetch of HEAD was read back, and so was a fetch of refs/heads/main
C30_Witness ==
    \E p \in Procs :
        /\ inp[p].ref \in {<<"HEAD">>, <<"refs", "heads", "main">>}
        /\ hist[p].nFetch > 0 /\ ~hist[p].fetchFailed
        /\ pc[p] = "post"
        /\ attrs[p].rev # NoRev

----------------------------------------------------------------------------
(* the ZIP accessor *)

ZipKeys == {m.key : m \in zip.members}

\* the prefix of the entries below directory p
DirPrefix(p) == IF p = <<"/">> THEN p ELSE p \o <<"/">>

\* p is the root of the archive, or there are indexed entries at or below p/
IsDirectoryPath(p) ==
    p = <<"/">> \/ \E k \in ZipKeys : strncmpEq(k, DirPrefix(p))

\* the names n without '/' such that p/n or p/n/ is an indexed entry
ChildrenOf(p) ==
    {n \in UNION {{SubSeq(k, i, j) : i \in 1..Len(k), j \in 1..Len(k)} : k \in ZipKeys} :
        /\ n # <<>>
        /\ strchr(n, "/") = 0
        /\ \/ DirPrefix(p) \o n \in ZipKeys
           \/ DirPrefix(p) \o n \o <<"/">> \in ZipKeys}

\* C26: readDirectory(p), for the root and for every directory p, with or without
\* an entry p/ of its own, returns exactly the names n such that p/n or p/n/ is
\* an indexed entry.
C26_ReadDirectoryChildren ==
    (zip.op = "readDirectory" /\ IsDirectoryPath(canonPath(zip.path))) =>
        /\ zip.res.ok
        /\ zip.res.names = ChildrenOf(canonPath(zip.path))

\* the archive a/, a/b (mode 0100755, Unix origin), a/a/
ExampleArchive ==
    zip.archive = {1, 2, 3} /\ zip.opsys = "unix" /\ zip.mode = 33261

\* C27: a member is addressed by its entry name: a file a/b of the archive is
\* found by pathExists and lstat at the path /a/b; in the example archive
\* lstat of a/b is executable and readDirectory of a gives b and a.
C27_AddressedByEntryName ==
    /\ (/\ zip.op \in {"pathExists", "lstat"}
        /\ \E n \in zip.archive :
              /\ strchr(ZipNames[n], "/") # 0
              /\ ZipNames[n][Len(ZipNames[n])] # "/"
              /\ zip.path = <<"/">> \o ZipNames[n]
        /\ zip.op = "lstat" => ModeType(zip.mode) \in {32768, 40960} \/ zip.opsys # "unix")
            => zip.res.ok
    /\ (ExampleArchive /\ zip.op = "lstat" /\ zip.path = <<"/", "a", "/", "b">>)
            => (zip.res.ok /\ zip.res.isExecutable)
    /\ (ExampleArchive /\ zip.op = "readDirectory" /\ zip.path = <<"/", "a">>)
            => (zip.res.ok /\ zip.res.names = {<<"b">>, <<"a">>})

\* the member that lstat finds for a path: the path itself, or the path with a
\* '/' at its end
LstatMember(path) ==
    IF MembersFind(zip.members, path) # NoMember THEN MembersFind(zip.members, path)
    ELSE MembersFind(zip.members, path \o <<"/">>)

\* C28: lstat of an entry of Unix origin returns the type that the mode of the
\* entry gives: regular for 0100000, with isExecutable as the bit 0100,
\* directory for 0040000, symlink for 0120000, and fails for another type.
C28_LstatTypeFromMode ==
    (/\ zip.op = "lstat" /\ zip.opsys = "unix"
     /\ LstatMember(canonPath(zip.path)) # NoMember) =>
        LET high == ZipAttributesHigh(LstatMember(canonPath(zip.path)).index, zip.mode)
        IN  /\ ModeType(high) = 32768 =>
                  /\ zip.res.ok /\ zip.res.type = "tRegular"
                  /\ zip.res.isExecutable = ModeExec(high)
            /\ ModeType(high) = 16384 => (zip.res.ok /\ zip.res.type = "tDirectory")
            /\ ModeType(high) = 40960 => (zip.res.ok /\ zip.res.type = "tSymlink")
            /\ ModeType(high) \notin {32768, 16384, 40960} => ~zip.res.ok

\* C33: pathExists and lstat agree: for every archive and every path p,
\* pathExists(p) is true exactly when lstat(p) succeeds, also for a directory
\* that the index holds only as the entry p/.
C33_PathExistsAgreesWithLstat ==
    /\ zip.op = "pathExists" =>
          zip.res.ok = lstat(zip.members, zip.opsys, zip.mode, zip.path).ok
    /\ zip.op = "lstat" =>
          zip.res.ok = pathExists(zip.members, zip.path).ok

\* the outcomes of getAccessorFromCommit that go through makeResult2
CommitResults == {"locked-hit", "unlocked-hit", "git-accessor", "store-path"}

\* C31: the two assertions of makeResult2 hold on every path through
\* getAccessorFromCommit: no call aborts on them, every returned input has a
\* rev, and when the caller gave a rev the returned rev is that one; an unlocked
\* record that points at another rev does not answer a call that pins a rev.
C31_MakeResult2Asserts ==
    \A p \in Procs :
        /\ outcome[p] # "assertion-failed"
        /\ (pc[p] = "done" /\ outcome[p] \in CommitResults) =>
              /\ attrs[p].rev # NoRev
              /\ inp[p].rev # NoRev => attrs[p].rev = inp[p].rev

\* a call that pins a rev has returned while the unlocked record of its url and
\* ref points at another rev
C31_Witness ==
    \E p \in Procs :
        /\ pc[p] = "done" /\ outcome[p] \in CommitResults
        /\ inp[p].rev # NoRev
        /\ \E r \in LookupUnlocked(CacheTypeOf(inp[p]), inp[p].url, attrs[p].ref) :
              r.info.rev # inp[p].rev

\* C32: a call of getAccessorFromCommit whose input carried a rev never adds or
\* overwrites the unlocked record: the unlocked records change only in the
\* step of a call that resolved its rev from the ref, and then only the record
\* of that call's (cacheType, url, ref), which gets the resolved rev.
C32_PinnedRevKeepsUnlocked ==
    [][cacheUnlocked' # cacheUnlocked =>
          \E p \in Procs :
              /\ pc[p] = "submodules" /\ pc'[p] = "done"
              /\ inp[p].rev = NoRev
              /\ \A r \in cacheUnlocked' \ cacheUnlocked :
                    /\ r.type = CacheTypeOf(inp[p])
                    /\ r.url = inp[p].url
                    /\ r.ref = loc[p].ref
                    /\ r.info.rev = attrs[p].rev
              /\ \A r \in cacheUnlocked \ cacheUnlocked' :
                    /\ r.type = CacheTypeOf(inp[p])
                    /\ r.url = inp[p].url
                    /\ r.ref = loc[p].ref]_vars

\* a call that pins a rev has put a tree in the store while the unlocked record
\* of its url and ref points at another rev
C32_Witness ==
    \E p \in Procs :
        /\ pc[p] = "done" /\ outcome[p] = "store-path"
        /\ inp[p].rev # NoRev
        /\ \E r \in LookupUnlocked(CacheTypeOf(inp[p]), inp[p].url, attrs[p].ref) :
              r.info.rev # inp[p].rev

============================================================================
